---------------------------- MODULE Spec2Model ----------------------------
(***************************************************************************)
(* Trace-context propagation through pod metadata (package traceutil) and  *)
(* the process-wide exporter bootstrap.                                    *)
(*                                                                         *)
(* Go strings and byte slices are sequences of byte values 0..255 (a       *)
(* string is the sequence of its ASCII codes).  A SpanContext is the       *)
(* record [TraceID : 16 bytes, SpanID : 8 bytes, TraceOptions : byte].     *)
(* The package exists in three revisions: src/unnamed/part_000,            *)
(* src/pkg/util/trace/traceutil.go lines 1-66 and lines 68-184; `rev'      *)
(* says which one the process is built from.                               *)
(*                                                                         *)
(* Further specifications cover concurrent calls of the encode and decode  *)
(* functions (SpecConcurrent, `calls'), the downward-application command   *)
(* (SpecCLI, `cli'; `rev' is then the revision of main) and the patch      *)
(* helpers of package pod against an API server (SpecPatch, `apiserver',   *)
(* `snapshots').                                                           *)
(***************************************************************************)
EXTENDS Integers, Sequences, FiniteSets, TLC

VARIABLES rev, input, alive, pod, spans, exporters, exported, ret,
          calls, cli, apiserver, snapshots

vars == <<rev, input, alive, pod, spans, exporters, exported, ret,
          calls, cli, apiserver, snapshots>>

(***************************************************************************)
(* Bounds of the model.                                                    *)
(***************************************************************************)
NumSeeds == 2
MaxSpans == 1
MaxExporters == 2
NumCalls == 2
MaxPatches == 2

(***************************************************************************)
(* encoding/base64, StdEncoding: the alphabet, the padding character and   *)
(* the two characters the decoder skips.                                   *)
(***************************************************************************)
encodeStd ==
    [i \in 1..64 |->
        IF i <= 26 THEN 64 + i                 \* 'A'..'Z'
        ELSE IF i <= 52 THEN 70 + i            \* 'a'..'z'
        ELSE IF i <= 62 THEN i - 5             \* '0'..'9'
        ELSE IF i = 63 THEN 43                 \* '+'
        ELSE 47]                               \* '/'

StdPadding == 61

LineFeed == 10

CarriageReturn == 13

\* Encoding.decodeMap, built from the alphabet: the 6-bit value of an alphabet
\* character, 255 for every other byte
decodeMap ==
    [ch \in 0..255 |->
        IF \E i \in 1..64 : encodeStd[i] = ch
        THEN (CHOOSE i \in 1..64 : encodeStd[i] = ch) - 1
        ELSE 255]

Sextet(val, shift) == encodeStd[((val \div shift) % 64) + 1]

\* base64.StdEncoding.EncodeToString
RECURSIVE EncodeToString(_)
EncodeToString(src) ==
    IF Len(src) = 0 THEN <<>>
    ELSE IF Len(src) >= 3 THEN
        LET val == src[1] * 65536 + src[2] * 256 + src[3]
        IN  <<Sextet(val, 262144), Sextet(val, 4096), Sextet(val, 64), Sextet(val, 1)>>
              \o EncodeToString(SubSeq(src, 4, Len(src)))
    ELSE IF Len(src) = 2 THEN
        LET val == src[1] * 65536 + src[2] * 256
        IN  <<Sextet(val, 262144), Sextet(val, 4096), Sextet(val, 64), StdPadding>>
    ELSE
        LET val == src[1] * 65536
        IN  <<Sextet(val, 262144), Sextet(val, 4096), StdPadding, StdPadding>>

\* the index of the first character at or after si that is not '\r' or '\n'
RECURSIVE SkipNewlines(_, _)
SkipNewlines(src, si) ==
    IF si <= Len(src) /\ src[si] \in {LineFeed, CarriageReturn}
    THEN SkipNewlines(src, si + 1)
    ELSE si

\* the bytes of a quantum of dlen sextets (dlen 4: 3 bytes, 3: 2 bytes, 2: 1 byte)
QuantumBytes(dbuf) ==
    LET d(k) == IF k <= Len(dbuf) THEN dbuf[k] ELSE 0
        val == d(1) * 262144 + d(2) * 4096 + d(3) * 64 + d(4)
        all == <<(val \div 65536) % 256, (val \div 256) % 256, val % 256>>
    IN  SubSeq(all, 1, Len(dbuf) - 1)

\* Encoding.decodeQuantum: reads up to four sextets from src[si..]; dbuf holds
\* the sextets read so far.  Result: the next index, the bytes, the error flag.
RECURSIVE decodeQuantum(_, _, _)
decodeQuantum(src, si, dbuf) ==
    LET j == Len(dbuf)
        corrupt == [si |-> si, out |-> <<>>, err |-> TRUE]
    IN
    IF j = 4 THEN [si |-> si, out |-> QuantumBytes(dbuf), err |-> FALSE]
    ELSE IF si > Len(src) THEN
        IF j = 0 THEN [si |-> si, out |-> <<>>, err |-> FALSE]
        ELSE corrupt                      \* j = 1, or padding is missing
    ELSE
        LET in == src[si]
            out == decodeMap[in]
        IN
        IF out # 255 THEN decodeQuantum(src, si + 1, Append(dbuf, out))
        ELSE IF in \in {LineFeed, CarriageReturn} THEN decodeQuantum(src, si + 1, dbuf)
        ELSE IF in # StdPadding THEN corrupt
        ELSE IF j < 2 THEN corrupt        \* padding where data must be
        ELSE
            LET s1 == SkipNewlines(src, si + 1)
                second == IF j = 2 THEN s1 + 1 ELSE si + 1
                s2 == SkipNewlines(src, second)
            IN
            IF j = 2 /\ s1 > Len(src) THEN corrupt           \* not enough padding
            ELSE IF j = 2 /\ src[s1] # StdPadding THEN corrupt
            ELSE [si |-> s2, out |-> QuantumBytes(dbuf),
                  err |-> s2 <= Len(src)]                    \* trailing garbage

\* Encoding.Decode: quantum after quantum until the input ends or one fails
RECURSIVE decodeFrom(_, _)
decodeFrom(src, si) ==
    IF si > Len(src) THEN [out |-> <<>>, err |-> FALSE]
    ELSE
        LET q == decodeQuantum(src, si, <<>>)
        IN  IF q.err THEN [out |-> q.out, err |-> TRUE]
            ELSE LET r == decodeFrom(src, q.si)
                 IN  [out |-> q.out \o r.out, err |-> r.err]

\* base64.StdEncoding.DecodeString
DecodeString(s) == decodeFrom(s, 1)

(***************************************************************************)
(* go.opencensus.io/trace: SpanContext, and the binary wire format of      *)
(* go.opencensus.io/trace/propagation.                                     *)
(***************************************************************************)
Zeros(n) == [i \in 1..n |-> 0]

\* trace.SpanContext{}
ZeroSpanContext == [TraceID |-> Zeros(16), SpanID |-> Zeros(8), TraceOptions |-> 0]

\* TraceOptions.IsSampled: bit 0
IsSampled(sc) == sc.TraceOptions % 2 = 1

\* propagation.Binary: nil for the zero context, else 29 bytes: version 0,
\* field 0 + trace ID, field 1 + span ID, field 2 + options
Binary(sc) ==
    IF sc = ZeroSpanContext THEN <<>>
    ELSE <<0, 0>> \o sc.TraceID \o <<1>> \o sc.SpanID \o <<2, sc.TraceOptions>>

\* propagation.FromBinary: version 0 and the trace ID field are required, the
\* span ID and options fields are read when present
FromBinary(b) ==
    LET failed == [sc |-> ZeroSpanContext, ok |-> FALSE]
    IN
    IF Len(b) = 0 \/ b[1] # 0 THEN failed
    ELSE
        LET b1 == Tail(b)
        IN
        IF ~(Len(b1) >= 17 /\ b1[1] = 0) THEN failed
        ELSE
            LET b2 == SubSeq(b1, 18, Len(b1))
                hasSpan == Len(b2) >= 9 /\ b2[1] = 1
                b3 == IF hasSpan THEN SubSeq(b2, 10, Len(b2)) ELSE b2
                hasOpts == Len(b3) >= 2 /\ b3[1] = 2
            IN  [sc |-> [TraceID |-> SubSeq(b1, 2, 17),
                         SpanID |-> IF hasSpan THEN SubSeq(b2, 2, 9) ELSE Zeros(8),
                         TraceOptions |-> IF hasOpts THEN b3[2] ELSE 0],
                 ok |-> TRUE]

(***************************************************************************)
(* Errors.  nil, base64.CorruptInputError, and the package's own error     *)
(* (part_000 puts the pod's name into the message of the pod variant).     *)
(***************************************************************************)
Nil == [msg |-> "nil", pod |-> ""]

CorruptInputError == [msg |-> "illegal base64 data", pod |-> ""]

ErrNotTrace == [msg |-> "could not convert raw bytes to trace", pod |-> ""]

ErrNotTraceFromPod(name) ==
    [msg |-> "could not convert raw bytes to trace from pod", pod |-> name]

(***************************************************************************)
(* Package traceutil: the encode and decode functions.                     *)
(***************************************************************************)
\* SpanContextToBase64String written with base64.RawStdEncoding: no padding
SpanContextToBase64String_Raw(spanContext) ==
    SelectSeq(EncodeToString(Binary(spanContext)), LAMBDA ch : ch # StdPadding)

\* SpanContextToBase64String
SpanContextToBase64String(spanContext) == EncodeToString(Binary(spanContext))

\* SpanContextFromBase64String with the error of DecodeString dropped
SpanContextFromBase64String_IgnoreDecodeErr(stringEncodedContext) ==
    LET decoded == DecodeString(stringEncodedContext)
        parsed == FromBinary(decoded.out)
    IN
    IF ~parsed.ok
        THEN [sc |-> ZeroSpanContext, err |-> ErrNotTrace, parsed |-> TRUE]
    ELSE [sc |-> parsed.sc, err |-> Nil, parsed |-> TRUE]

\* SpanContextFromBase64String.  `parsed' says whether the decoded buffer was
\* handed to propagation.FromBinary.
SpanContextFromBase64String(stringEncodedContext) ==
    LET decoded == DecodeString(stringEncodedContext)
        parsed == FromBinary(decoded.out)
    IN
    IF decoded.err
        THEN [sc |-> ZeroSpanContext, err |-> CorruptInputError, parsed |-> FALSE]
    ELSE IF ~parsed.ok
        THEN [sc |-> ZeroSpanContext, err |-> ErrNotTrace, parsed |-> TRUE]
    ELSE [sc |-> parsed.sc, err |-> Nil, parsed |-> TRUE]

\* SpanContextFromPodEncodedContext with the ok of FromBinary dropped
SpanContextFromPodEncodedContext_IgnoreOk(r, p) ==
    LET decoded == DecodeString(p.TraceContext)
        parsed == FromBinary(decoded.out)
    IN
    IF decoded.err
        THEN [sc |-> ZeroSpanContext, err |-> CorruptInputError, parsed |-> FALSE]
    ELSE [sc |-> parsed.sc, err |-> Nil, parsed |-> TRUE]

\* SpanContextFromPodEncodedContext, of revision r, on pod p
SpanContextFromPodEncodedContext(r, p) ==
    LET decoded == DecodeString(p.TraceContext)
        parsed == FromBinary(decoded.out)
    IN
    IF decoded.err
        THEN [sc |-> ZeroSpanContext, err |-> CorruptInputError, parsed |-> FALSE]
    ELSE IF ~parsed.ok
        THEN [sc |-> ZeroSpanContext,
              err |-> IF r = "part_000" THEN ErrNotTraceFromPod(p.Name) ELSE ErrNotTrace,
              parsed |-> TRUE]
    ELSE [sc |-> parsed.sc, err |-> Nil, parsed |-> TRUE]

(***************************************************************************)
(* go.opencensus.io/trace: starting and ending spans, the exporters.       *)
(***************************************************************************)
\* a < b for two byte strings of one length read as big-endian numbers
RECURSIVE BytesLess(_, _)
BytesLess(a, b) ==
    IF Len(a) = 0 THEN FALSE
    ELSE IF a[1] # b[1] THEN a[1] < b[1]
    ELSE BytesLess(Tail(a), Tail(b))

\* The default sampler, ProbabilitySampler(1e-4): a sampled parent is followed,
\* else the first 8 bytes of the trace ID, shifted right by one, are compared
\* with uint64(1e-4 * 2^63) = 922337203685477, that is, the 8 bytes are below
\* twice that, 0x00068DB8BAC710CA.
ProbabilitySampler(parent, traceID) ==
    \/ IsSampled(parent)
    \/ BytesLess(SubSeq(traceID, 1, 8), <<0, 6, 141, 184, 186, 199, 16, 202>>)

\* SpanContext.setIsSampled
SetIsSampled(options, sampled) ==
    IF sampled THEN (options - (options % 2)) + 1 ELSE options - (options % 2)

\* a span that records nothing: Span.data is nil
NoData == [present |-> FALSE, Name |-> "", ParentSpanID |-> Zeros(8),
           HasRemoteParent |-> FALSE]

\* &trace.Span{}
ZeroSpan == [spanContext |-> ZeroSpanContext, data |-> NoData, ended |-> FALSE]

\* trace.StartSpanWithRemoteParent(context.Background(), name, parent), with
\* newSpanID the ID the generator hands out: the span keeps the parent's trace
\* ID, the sampler decides, and only a sampled span records its data.
StartSpanWithRemoteParent(name, parent, newSpanID) ==
    LET sampled == ProbabilitySampler(parent, parent.TraceID)
    IN  [spanContext |-> [TraceID |-> parent.TraceID,
                          SpanID |-> newSpanID,
                          TraceOptions |-> SetIsSampled(parent.TraceOptions, sampled)],
         data |-> IF sampled
                  THEN [present |-> TRUE, Name |-> name,
                        ParentSpanID |-> parent.SpanID, HasRemoteParent |-> TRUE]
                  ELSE NoData,
         ended |-> FALSE]

\* trace.RegisterExporter: the exporter is added to the registered ones
RegisterExporter(exps, e) == Append(exps, e)

\* Span.End of span i: a span without data, or one already ended, does nothing;
\* a sampled span is handed to every registered exporter.  The result is the
\* set of deliveries.
SpanEnd(sps, exps, i) ==
    IF ~sps[i].data.present \/ sps[i].ended THEN {}
    ELSE IF IsSampled(sps[i].spanContext)
        THEN {[span |-> i, exporter |-> k, registered |-> Len(exps)] : k \in 1..Len(exps)}
    ELSE {}

(***************************************************************************)
(* Package traceutil: spans from pods, embedding, the exporter.            *)
(***************************************************************************)
\* SpanFromPodEncodedContext that starts a span without a parent when the
\* pod's context does not decode
SpanFromPodEncodedContext_Unparented(r, p, name, newSpanID) ==
    LET p1 == IF r = "part_000" THEN [p EXCEPT !.ResourceVersion = "asdf"] ELSE p
        decoded == SpanContextFromPodEncodedContext(r, p1)
    IN  [pod |-> p1, ctxHasSpan |-> TRUE,
         span |-> StartSpanWithRemoteParent(name, decoded.sc, newSpanID),
         started |-> TRUE, err |-> Nil]

\* SpanFromPodEncodedContext that starts the span from the zero context
\* instead of the decoded one
SpanFromPodEncodedContext_NewRoot(r, p, name, newSpanID) ==
    LET p1 == IF r = "part_000" THEN [p EXCEPT !.ResourceVersion = "asdf"] ELSE p
        decoded == SpanContextFromPodEncodedContext(r, p1)
    IN
    IF decoded.err # Nil
        THEN [pod |-> p1, ctxHasSpan |-> FALSE, span |-> ZeroSpan, started |-> FALSE,
              err |-> decoded.err]
    ELSE [pod |-> p1, ctxHasSpan |-> TRUE,
          span |-> StartSpanWithRemoteParent(name, ZeroSpanContext, newSpanID),
          started |-> TRUE, err |-> Nil]

\* SpanFromPodEncodedContext that takes the context out of the pod once it
\* has read it
SpanFromPodEncodedContext_ConsumeContext(r, p, name, newSpanID) ==
    LET p1 == IF r = "part_000" THEN [p EXCEPT !.ResourceVersion = "asdf"] ELSE p
        decoded == SpanContextFromPodEncodedContext(r, p1)
        p2 == [p1 EXCEPT !.TraceContext = <<>>]
    IN
    IF decoded.err # Nil
        THEN [pod |-> p2, ctxHasSpan |-> FALSE, span |-> ZeroSpan, started |-> FALSE,
              err |-> decoded.err]
    ELSE [pod |-> p2, ctxHasSpan |-> TRUE,
          span |-> StartSpanWithRemoteParent(name, decoded.sc, newSpanID),
          started |-> TRUE, err |-> Nil]

\* SpanFromPodEncodedContext of revision r on pod p.  part_000 first sets the
\* pod's resource version.
SpanFromPodEncodedContext(r, p, name, newSpanID) ==
    LET p1 == IF r = "part_000" THEN [p EXCEPT !.ResourceVersion = "asdf"] ELSE p
        decoded == SpanContextFromPodEncodedContext(r, p1)
    IN
    IF decoded.err # Nil
        THEN [pod |-> p1, ctxHasSpan |-> FALSE, span |-> ZeroSpan, started |-> FALSE,
              err |-> decoded.err]
    ELSE [pod |-> p1, ctxHasSpan |-> TRUE,
          span |-> StartSpanWithRemoteParent(name, decoded.sc, newSpanID),
          started |-> TRUE, err |-> Nil]

\* EncodeSpanContextIntoPod that writes only into an empty field
EncodeSpanContextIntoPod_KeepExisting(p, spanContext) ==
    [pod |-> IF p.TraceContext = <<>>
             THEN [p EXCEPT !.TraceContext = EncodeToString(Binary(spanContext))]
             ELSE p,
     err |-> Nil]

\* EncodeSpanContextIntoPod (the pod is a *core.Pod; the model has one pod record)
EncodeSpanContextIntoPod(p, spanContext) ==
    [pod |-> [p EXCEPT !.TraceContext = EncodeToString(Binary(spanContext))],
     err |-> Nil]

\* InitializeExporter of revision r; endpointErr says whether
\* openzipkin.NewEndpoint returned an error.  part_000 logs the error and goes
\* on with a nil endpoint; traceutil.go calls log.Fatalf, which ends the process.
InitializeExporter(r, service, endpointErr, exps) ==
    IF r = "part_000"
        THEN [exporters |-> RegisterExporter(exps,
                               [service |-> service,
                                localEndpoint |-> IF endpointErr THEN "nil" ELSE "set"]),
              registered |-> TRUE, fatal |-> FALSE, err |-> Nil]
    ELSE IF endpointErr
        THEN [exporters |-> exps, registered |-> FALSE, fatal |-> TRUE, err |-> Nil]
    ELSE [exporters |-> RegisterExporter(exps,
                           [service |-> "kubernetes-component", localEndpoint |-> "set"]),
          registered |-> TRUE, fatal |-> FALSE, err |-> Nil]

(***************************************************************************)
(* The inputs of the model.                                                *)
(***************************************************************************)
Seeds == {0} \cup {(85 * k) % 256 : k \in 1..NumSeeds}

IDBytes(n, seed) == [i \in 1..n |-> (seed * i) % 256]

TraceIDs == {IDBytes(16, s) : s \in Seeds}

SpanIDs == {IDBytes(8, s) : s \in Seeds}

TraceOptionsValues == {0, 1, 255}

Contexts ==
    {[TraceID |-> t, SpanID |-> s, TraceOptions |-> o] :
        t \in TraceIDs, s \in SpanIDs, o \in TraceOptionsValues}

\* wire buffers: those Binary writes, cut short, with a wrong version byte,
\* with wrong field ids, and with bytes after the last field
TruncatedLengths == {1, 5, 17, 18, 19, 26, 27, 28}

Buffers ==
    LET full == {Binary(c) : c \in Contexts \ {ZeroSpanContext}}
    IN  {<<>>}
        \cup full
        \cup {SubSeq(b, 1, n) : b \in full, n \in TruncatedLengths}
        \cup {[b EXCEPT ![1] = 1] : b \in full}
        \cup {[b EXCEPT ![2] = 3] : b \in full}
        \cup {[b EXCEPT ![19] = 7] : b \in full}
        \cup {[b EXCEPT ![28] = 9] : b \in full}
        \cup {b \o <<3, 1>> : b \in full}
        \cup {<<115, 104, 111, 114, 116>>}                    \* "short"

InsertAt(s, k, ch) == SubSeq(s, 1, k) \o <<ch>> \o SubSeq(s, k + 1, Len(s))

\* "not-valid-base64!!"
NotValidBase64 ==
    <<110, 111, 116, 45, 118, 97, 108, 105, 100, 45, 98, 97, 115, 101, 54, 52, 33, 33>>

\* strings: the encodings of the buffers, and for each full encoding the same
\* with its last character dropped, a '!' in it, a line feed in it, a '=' in
\* its first quantum, a character after its padding, and other trailing bits
Inputs ==
    LET good == {EncodeToString(b) : b \in Buffers}
        full == {SpanContextToBase64String(c) : c \in Contexts \ {ZeroSpanContext}}
    IN  good
        \cup {SubSeq(e, 1, Len(e) - 1) : e \in full}
        \cup {[e EXCEPT ![3] = 33] : e \in full}
        \cup {InsertAt(e, 4, LineFeed) : e \in full}
        \cup {InsertAt(e, Len(e) - 1, CarriageReturn) : e \in full}
        \cup {[e EXCEPT ![2] = StdPadding] : e \in full}
        \cup {e \o <<65>> : e \in full}
        \cup {[e EXCEPT ![Len(e) - 1] = IF e[Len(e) - 1] = 65 THEN 66 ELSE e[Len(e) - 1] + 1]
                : e \in full}
        \cup {NotValidBase64, <<StdPadding>>, <<65>>, <<65, 65, StdPadding, StdPadding>>,
              <<65, 65, LineFeed, StdPadding, StdPadding, LineFeed>>,
              <<65, 65, StdPadding, 65>>}

Revisions == {"part_000", "traceutil_1", "traceutil_2"}

\* the revisions that define SpanContextToBase64String and
\* SpanContextFromBase64String, and InitializeExporter
RevisionsWithCodec == {"part_000", "traceutil_2"}

PodNames == {"", "nginx"}

(***************************************************************************)
(* State.                                                                  *)
(***************************************************************************)
\* no call has returned yet.  A call's record keeps its arguments (the pod's
\* name, trace context `str' and resource version `rv' before the call, the
\* number of spans and exporters before it) and its results.
NoRet ==
    [op |-> "none", name |-> "", str |-> <<>>, rv |-> "", sc |-> ZeroSpanContext,
     err |-> Nil, parsed |-> FALSE, spanName |-> "", span |-> ZeroSpan,
     ctxHasSpan |-> FALSE, nspans |-> 0, nexporters |-> 0, endpointErr |-> FALSE,
     registered |-> FALSE, returned |-> TRUE]

NewPod(name, tc) == [Name |-> name, TraceContext |-> tc, ResourceVersion |-> ""]

\* the arguments the caller holds: a SpanContext to encode, a string to decode
NoInput == [sc |-> ZeroSpanContext, str |-> <<>>]

\* no goroutine is inside the encode and decode functions
NoCalls == <<>>

\* the process is not the downward-application command
NoCLI == [pc |-> "none"]

\* the process talks to no API server
NoAPIServer == [pod |-> <<>>, requests |-> 0]

InitCodec ==
    /\ rev \in Revisions
    /\ input \in {[NoInput EXCEPT !.sc = c] : c \in Contexts}
               \cup {[NoInput EXCEPT !.str = s] : s \in Inputs}
    /\ alive = TRUE
    /\ \E name \in PodNames : pod = NewPod(name, input.str)
    /\ spans = <<>>
    /\ exporters = <<>>
    /\ exported = {}
    /\ ret = NoRet
    /\ calls = NoCalls
    /\ cli = NoCLI
    /\ apiserver = NoAPIServer
    /\ snapshots = {}

\* a call of SpanContextToBase64String(input.sc)
CallSpanContextToBase64String ==
    /\ alive
    /\ rev \in RevisionsWithCodec
    /\ ret' = [NoRet EXCEPT !.op = "SpanContextToBase64String",
                            !.sc = input.sc,
                            !.str = SpanContextToBase64String(input.sc)]
    /\ UNCHANGED <<calls, cli, apiserver, snapshots, rev, input, alive, pod, spans, exporters, exported>>

\* a call of SpanContextFromBase64String, on the caller's string or on the
\* string the preceding SpanContextToBase64String returned
CallSpanContextFromBase64String ==
    /\ alive
    /\ rev \in RevisionsWithCodec
    /\ \E stringEncodedContext \in
            {input.str} \cup
            (IF ret.op = "SpanContextToBase64String" THEN {ret.str} ELSE {}) :
          LET r == SpanContextFromBase64String(stringEncodedContext)
          IN  ret' = [NoRet EXCEPT !.op = "SpanContextFromBase64String",
                                   !.str = stringEncodedContext,
                                   !.sc = r.sc,
                                   !.err = r.err,
                                   !.parsed = r.parsed]
    /\ UNCHANGED <<calls, cli, apiserver, snapshots, rev, input, alive, pod, spans, exporters, exported>>

\* a call of SpanContextFromPodEncodedContext(pod)
CallSpanContextFromPodEncodedContext ==
    /\ alive
    /\ LET r == SpanContextFromPodEncodedContext(rev, pod)
       IN  ret' = [NoRet EXCEPT !.op = "SpanContextFromPodEncodedContext",
                                !.name = pod.Name,
                                !.str = pod.TraceContext,
                                !.sc = r.sc,
                                !.err = r.err,
                                !.parsed = r.parsed]
    /\ UNCHANGED <<calls, cli, apiserver, snapshots, rev, input, alive, pod, spans, exporters, exported>>

NextCodec ==
    \/ CallSpanContextToBase64String
    \/ CallSpanContextFromBase64String
    \/ CallSpanContextFromPodEncodedContext

SpecCodec == InitCodec /\ [][NextCodec]_vars

(***************************************************************************)
(* Pods that carry a trace context: embedding, decoding, continuing spans. *)
(***************************************************************************)
Ctx(traceSeed, spanSeed, options) ==
    [TraceID |-> IDBytes(16, traceSeed), SpanID |-> IDBytes(8, spanSeed),
     TraceOptions |-> options]

\* the contexts callers embed: the zero value, an unsampled one, a sampled one,
\* and an unsampled one whose trace ID the default sampler picks
EmbedContexts == {ZeroSpanContext, Ctx(85, 85, 0), Ctx(85, 170, 1), Ctx(0, 85, 0)}

\* what a pod's TraceContext holds at first: nothing, text that is no base64,
\* base64("short"), a buffer cut after the trace ID, or an embedded context
PodContexts ==
    {<<>>, NotValidBase64, EncodeToString(<<115, 104, 111, 114, 116>>),
     EncodeToString(SubSeq(Binary(Ctx(85, 170, 1)), 1, 18))}
    \cup {SpanContextToBase64String(c) : c \in EmbedContexts}

\* the IDs the span ID generator hands out: any non-zero ID
NewSpanIDs == SpanIDs \ {Zeros(8)}

SpanNames == {"sync-pod"}

Init ==
    /\ rev \in Revisions
    /\ input = NoInput
    /\ alive = TRUE
    /\ pod \in {NewPod(name, tc) : name \in PodNames, tc \in PodContexts}
    /\ spans = <<>>
    /\ exporters = <<>>
    /\ exported = {}
    /\ ret = NoRet
    /\ calls = NoCalls
    /\ cli = NoCLI
    /\ apiserver = NoAPIServer
    /\ snapshots = {}

\* a call of EncodeSpanContextIntoPod(pod, spanContext)
CallEncodeSpanContextIntoPod ==
    /\ alive
    /\ \E spanContext \in EmbedContexts :
          LET r == EncodeSpanContextIntoPod(pod, spanContext)
          IN  /\ pod' = r.pod
              /\ ret' = [NoRet EXCEPT !.op = "EncodeSpanContextIntoPod",
                                      !.name = pod.Name,
                                      !.str = pod.TraceContext,
                                      !.rv = pod.ResourceVersion,
                                      !.sc = spanContext,
                                      !.err = r.err]
    /\ UNCHANGED <<calls, cli, apiserver, snapshots, rev, input, alive, spans, exporters, exported>>

\* a call of SpanFromPodEncodedContext(pod, name)
CallSpanFromPodEncodedContext ==
    /\ alive
    /\ \E name \in SpanNames, newSpanID \in NewSpanIDs :
          LET r == SpanFromPodEncodedContext(rev, pod, name, newSpanID)
          IN  /\ r.started => Len(spans) < MaxSpans
              /\ pod' = r.pod
              /\ spans' = IF r.started THEN Append(spans, r.span) ELSE spans
              /\ ret' = [NoRet EXCEPT !.op = "SpanFromPodEncodedContext",
                                      !.name = pod.Name,
                                      !.str = pod.TraceContext,
                                      !.rv = pod.ResourceVersion,
                                      !.spanName = name,
                                      !.span = r.span,
                                      !.ctxHasSpan = r.ctxHasSpan,
                                      !.nspans = Len(spans),
                                      !.err = r.err]
    /\ UNCHANGED <<calls, cli, apiserver, snapshots, rev, input, alive, exporters, exported>>

Next ==
    \/ CallEncodeSpanContextIntoPod
    \/ CallSpanContextFromPodEncodedContext
    \/ CallSpanFromPodEncodedContext

Spec == Init /\ [][Next]_vars

(***************************************************************************)
(* The process-wide exporter: initialization, and spans ending.            *)
(***************************************************************************)
\* ServiceAPIServer, ServiceKubelet
Services == {"api-server", "kubelet"}

InitExporter ==
    /\ rev \in RevisionsWithCodec
    /\ input = NoInput
    /\ alive = TRUE
    /\ pod \in {NewPod("nginx", tc) :
                  tc \in {<<>>, SpanContextToBase64String(Ctx(85, 85, 0)),
                          SpanContextToBase64String(Ctx(85, 170, 1))}}
    /\ spans = <<>>
    /\ exporters = <<>>
    /\ exported = {}
    /\ ret = NoRet
    /\ calls = NoCalls
    /\ cli = NoCLI
    /\ apiserver = NoAPIServer
    /\ snapshots = {}

\* a call of InitializeExporter; part_000 takes the service, traceutil.go none
CallInitializeExporter ==
    /\ alive
    /\ rev \in RevisionsWithCodec
    /\ Len(exporters) < MaxExporters
    /\ \E service \in Services, endpointErr \in BOOLEAN :
          LET r == InitializeExporter(rev, service, endpointErr, exporters)
          IN  /\ exporters' = r.exporters
              /\ alive' = ~r.fatal
              /\ ret' = [NoRet EXCEPT !.op = "InitializeExporter",
                                      !.nexporters = Len(exporters),
                                      !.endpointErr = endpointErr,
                                      !.registered = r.registered,
                                      !.returned = ~r.fatal,
                                      !.err = r.err]
    /\ UNCHANGED <<calls, cli, apiserver, snapshots, rev, input, pod, spans, exported>>

\* span.End() on a span the process started
CallSpanEnd ==
    /\ alive
    /\ \E i \in 1..Len(spans) :
          /\ exported' = exported \cup SpanEnd(spans, exporters, i)
          /\ spans' = [spans EXCEPT ![i].ended = @ \/ spans[i].data.present]
          /\ ret' = [NoRet EXCEPT !.op = "Span.End",
                                  !.span = spans[i],
                                  !.nspans = Len(spans),
                                  !.nexporters = Len(exporters)]
    /\ UNCHANGED <<calls, cli, apiserver, snapshots, rev, input, alive, pod, exporters>>

NextExporter ==
    \/ CallInitializeExporter
    \/ CallSpanFromPodEncodedContext
    \/ CallSpanEnd

SpecExporter == InitExporter /\ [][NextExporter]_vars

(***************************************************************************)
(* Concurrent calls of SpanContextToBase64String and                       *)
(* SpanContextFromBase64String.  Each goroutine runs one call, statement   *)
(* by statement; the statements of different calls interleave.  The        *)
(* functions keep everything in parameters and local variables, and        *)
(* base64.StdEncoding is only read.                                        *)
(***************************************************************************)
Goroutines == 1..NumCalls

\* the contexts the concurrent callers hold, one each
CallContexts == {Ctx(85, 85, 0), Ctx(85, 170, 1), Ctx(0, 85, 0), Ctx(170, 85, 255)}

\* a call that has not run its first statement: its function, its argument
\* (spanContext for the encode, stringEncodedContext for the decode), its
\* local byte slice and its results
NewCall(op, c) ==
    [op |-> op, pc |-> "called",
     spanContext |-> IF op = "SpanContextToBase64String" THEN c ELSE ZeroSpanContext,
     stringEncodedContext |-> IF op = "SpanContextFromBase64String"
                              THEN SpanContextToBase64String(c) ELSE <<>>,
     bytes |-> <<>>, decodeErr |-> FALSE,
     str |-> <<>>, sc |-> ZeroSpanContext, err |-> Nil]

\* the first statement of a call: rawContextBytes := propagation.Binary(...),
\* or decodedContextBytes, err := base64.StdEncoding.DecodeString(...)
BeginCall(call) ==
    IF call.op = "SpanContextToBase64String"
    THEN [call EXCEPT !.pc = "running", !.bytes = Binary(call.spanContext)]
    ELSE LET decoded == DecodeString(call.stringEncodedContext)
         IN  [call EXCEPT !.pc = "running", !.bytes = decoded.out,
                          !.decodeErr = decoded.err]

\* the rest of call g, written as if the byte slice were one package-level
\* buffer: the call reads the slice of the highest-numbered call in flight
FinishCall_SharedBuffer(cs, g) ==
    LET inFlight == {h \in DOMAIN cs : cs[h].pc = "running"}
        h == CHOOSE k \in inFlight : \A j \in inFlight : j <= k
        call == cs[g]
        parsed == FromBinary(cs[h].bytes)
    IN
    IF call.op = "SpanContextToBase64String"
        THEN [call EXCEPT !.pc = "returned", !.str = EncodeToString(cs[h].bytes)]
    ELSE IF call.decodeErr
        THEN [call EXCEPT !.pc = "returned", !.err = CorruptInputError]
    ELSE IF ~parsed.ok
        THEN [call EXCEPT !.pc = "returned", !.err = ErrNotTrace]
    ELSE [call EXCEPT !.pc = "returned", !.sc = parsed.sc]

\* the rest of call g: the encode returns EncodeToString of its local slice,
\* the decode returns the error of DecodeString, or parses its local slice
FinishCall(cs, g) ==
    LET call == cs[g]
        parsed == FromBinary(call.bytes)
    IN
    IF call.op = "SpanContextToBase64String"
        THEN [call EXCEPT !.pc = "returned", !.str = EncodeToString(call.bytes)]
    ELSE IF call.decodeErr
        THEN [call EXCEPT !.pc = "returned", !.err = CorruptInputError]
    ELSE IF ~parsed.ok
        THEN [call EXCEPT !.pc = "returned", !.err = ErrNotTrace]
    ELSE [call EXCEPT !.pc = "returned", !.sc = parsed.sc]

CodecOps == {"SpanContextToBase64String", "SpanContextFromBase64String"}

InitConcurrent ==
    /\ rev \in RevisionsWithCodec
    /\ input = NoInput
    /\ alive = TRUE
    /\ pod = NewPod("", <<>>)
    /\ spans = <<>>
    /\ exporters = <<>>
    /\ exported = {}
    /\ ret = NoRet
    /\ \E ops \in [Goroutines -> CodecOps], cs \in [Goroutines -> CallContexts] :
          /\ \A g, h \in Goroutines : g # h => cs[g] # cs[h]
          /\ calls = [g \in Goroutines |-> NewCall(ops[g], cs[g])]
    /\ cli = NoCLI
    /\ apiserver = NoAPIServer
    /\ snapshots = {}

\* goroutine g runs the first statement of its call
Begin(g) ==
    /\ calls[g].pc = "called"
    /\ calls' = [calls EXCEPT ![g] = BeginCall(calls[g])]
    /\ UNCHANGED <<rev, input, alive, pod, spans, exporters, exported, ret,
                   cli, apiserver, snapshots>>

\* goroutine g runs its call to the return
Finish(g) ==
    /\ calls[g].pc = "running"
    /\ calls' = [calls EXCEPT ![g] = FinishCall(calls, g)]
    /\ UNCHANGED <<rev, input, alive, pod, spans, exporters, exported, ret,
                   cli, apiserver, snapshots>>

NextConcurrent == \E g \in Goroutines : Begin(g) \/ Finish(g)

SpecConcurrent == InitConcurrent /\ [][NextConcurrent]_vars

(***************************************************************************)
(* The downward-application command: main reads the trace context from the *)
(* environment, registers an exporter, decodes the context, starts a span  *)
(* and ends it.  main.go holds two revisions of it: lines 16-57 start the  *)
(* span as a child of the decoded context, lines 74-127 start a new root   *)
(* span and link it to the decoded context.                                *)
(***************************************************************************)
MainRevisions == {"main_1", "main_2"}

\* KUBERNETES_TRACE_CONTEXT in the environment: not set, or set to a string
Environments ==
    {[set |-> FALSE, value |-> <<>>]} \cup {[set |-> TRUE, value |-> s] : s \in Inputs}

\* os.Getenv: the value, the empty string when the variable is not set
Getenv(environ) == IF environ.set THEN environ.value ELSE <<>>

\* trace.AlwaysSample(), the sampler main applies
AlwaysSample(parent, traceID) == TRUE

\* the IDs the trace ID generator hands out: any non-zero ID
NewTraceIDs == TraceIDs \ {Zeros(16)}

\* trace.StartSpanWithRemoteParent under AlwaysSample
StartSpanWithRemoteParentAlwaysSample(name, parent, newSpanID) ==
    LET sampled == AlwaysSample(parent, parent.TraceID)
    IN  [spanContext |-> [TraceID |-> parent.TraceID,
                          SpanID |-> newSpanID,
                          TraceOptions |-> SetIsSampled(parent.TraceOptions, sampled)],
         data |-> [present |-> sampled, Name |-> name, ParentSpanID |-> parent.SpanID,
                   HasRemoteParent |-> TRUE, Links |-> <<>>],
         ended |-> FALSE]

\* trace.StartSpan(context.Background(), name) under AlwaysSample: a root span
\* with a new trace ID
StartSpan(name, newTraceID, newSpanID) ==
    LET sampled == AlwaysSample(ZeroSpanContext, newTraceID)
    IN  [spanContext |-> [TraceID |-> newTraceID,
                          SpanID |-> newSpanID,
                          TraceOptions |-> SetIsSampled(0, sampled)],
         data |-> [present |-> sampled, Name |-> name, ParentSpanID |-> Zeros(8),
                   HasRemoteParent |-> FALSE, Links |-> <<>>],
         ended |-> FALSE]

\* Span.AddLink: a span that records keeps the link
AddLink(span, link) ==
    IF span.data.present
    THEN [span EXCEPT !.data.Links = Append(@, link)]
    ELSE span

\* main at its first statement
NewMain(environ) ==
    [pc |-> "Getenv", environ |-> environ, traceContext |-> <<>>,
     decodedContextBytes |-> <<>>, spanContext |-> ZeroSpanContext,
     getenvs |-> 0, decodes |-> 0, parses |-> 0]

\* log.Fatal: the process exits
Fatal(c) == [c EXCEPT !.pc = "fatal"]

\* traceContext := os.Getenv("KUBERNETES_TRACE_CONTEXT")
mainGetenv(c) ==
    [c EXCEPT !.pc = "NewExporter",
              !.traceContext = Getenv(c.environ),
              !.getenvs = @ + 1]

\* decodedContextBytes, err := base64.StdEncoding.DecodeString(traceContext);
\* log.Fatal on an error
mainDecodeString(c) ==
    LET decoded == DecodeString(c.traceContext)
        c1 == [c EXCEPT !.decodes = @ + 1]
    IN  IF decoded.err THEN Fatal(c1)
        ELSE [c1 EXCEPT !.pc = "FromBinary", !.decodedContextBytes = decoded.out]

\* main that goes on with the zero context when the bytes are no span context
mainFromBinary_IgnoreOk(c) ==
    LET parsed == FromBinary(c.decodedContextBytes)
    IN  [c EXCEPT !.parses = @ + 1, !.pc = "StartSpan", !.spanContext = parsed.sc]

\* spanContext, ok := propagation.FromBinary(decodedContextBytes); log.Fatalf
\* when not ok
mainFromBinary(c) ==
    LET parsed == FromBinary(c.decodedContextBytes)
        c1 == [c EXCEPT !.parses = @ + 1]
    IN  IF ~parsed.ok THEN Fatal(c1)
        ELSE [c1 EXCEPT !.pc = "StartSpan", !.spanContext = parsed.sc]

\* the span main starts: main_1 a child of the decoded context, main_2 a root
\* span with a link to it
mainStartSpan(r, c, newTraceID, newSpanID) ==
    IF r = "main_1"
    THEN StartSpanWithRemoteParentAlwaysSample("Deep roots are not reached by the frost",
                                               c.spanContext, newSpanID)
    ELSE AddLink(StartSpan("ApplicationLevelTrace", newTraceID, newSpanID),
                 [TraceID |-> c.spanContext.TraceID, SpanID |-> c.spanContext.SpanID,
                  Type |-> "LinkTypeChild"])

InitCLI ==
    /\ rev \in MainRevisions
    /\ input = NoInput
    /\ alive = TRUE
    /\ pod = NewPod("", <<>>)
    /\ spans = <<>>
    /\ exporters = <<>>
    /\ exported = {}
    /\ ret = NoRet
    /\ calls = NoCalls
    /\ cli \in {NewMain(e) : e \in Environments}
    /\ apiserver = NoAPIServer
    /\ snapshots = {}

\* main.go line 19 (77)
MainGetenv ==
    /\ alive
    /\ cli.pc = "Getenv"
    /\ cli' = mainGetenv(cli)
    /\ UNCHANGED <<rev, input, alive, pod, spans, exporters, exported, ret,
                   calls, apiserver, snapshots>>

\* main.go lines 25-33 (83-91): stackdriver.NewExporter, log.Fatal on its
\* error, else trace.ApplyConfig and trace.RegisterExporter
MainNewExporter ==
    /\ alive
    /\ cli.pc = "NewExporter"
    /\ \E exporterErr \in BOOLEAN :
          IF exporterErr
          THEN /\ cli' = Fatal(cli)
               /\ alive' = FALSE
               /\ UNCHANGED exporters
          ELSE /\ cli' = [cli EXCEPT !.pc = "DecodeString"]
               /\ exporters' = RegisterExporter(exporters,
                                  [service |-> "stackdriver", localEndpoint |-> "none"])
               /\ UNCHANGED alive
    /\ UNCHANGED <<rev, input, pod, spans, exported, ret, calls, apiserver, snapshots>>

\* main.go lines 37-40 (95-98)
MainDecodeString ==
    /\ alive
    /\ cli.pc = "DecodeString"
    /\ cli' = mainDecodeString(cli)
    /\ alive' = (cli'.pc # "fatal")
    /\ UNCHANGED <<rev, input, pod, spans, exporters, exported, ret,
                   calls, apiserver, snapshots>>

\* main.go lines 44-47 (102-105)
MainFromBinary ==
    /\ alive
    /\ cli.pc = "FromBinary"
    /\ cli' = mainFromBinary(cli)
    /\ alive' = (cli'.pc # "fatal")
    /\ UNCHANGED <<rev, input, pod, spans, exporters, exported, ret,
                   calls, apiserver, snapshots>>

\* main.go line 50 (109-119)
MainStartSpan ==
    /\ alive
    /\ cli.pc = "StartSpan"
    /\ \E newTraceID \in NewTraceIDs, newSpanID \in NewSpanIDs :
          spans' = Append(spans, mainStartSpan(rev, cli, newTraceID, newSpanID))
    /\ cli' = [cli EXCEPT !.pc = "End"]
    /\ UNCHANGED <<rev, input, alive, pod, exporters, exported, ret,
                   calls, apiserver, snapshots>>

\* main.go line 52 (122): span.End()
MainSpanEnd ==
    /\ alive
    /\ cli.pc = "End"
    /\ exported' = exported \cup SpanEnd(spans, exporters, Len(spans))
    /\ spans' = [spans EXCEPT ![Len(spans)].ended = TRUE]
    /\ cli' = [cli EXCEPT !.pc = "return"]
    /\ UNCHANGED <<rev, input, alive, pod, exporters, ret, calls, apiserver, snapshots>>

\* main.go line 57 (127): main returns
MainReturn ==
    /\ alive
    /\ cli.pc = "return"
    /\ cli' = [cli EXCEPT !.pc = "exited"]
    /\ alive' = FALSE
    /\ UNCHANGED <<rev, input, pod, spans, exporters, exported, ret,
                   calls, apiserver, snapshots>>

NextCLI ==
    \/ MainGetenv
    \/ MainNewExporter
    \/ MainDecodeString
    \/ MainFromBinary
    \/ MainStartSpan
    \/ MainSpanEnd
    \/ MainReturn

SpecCLI == InitCLI /\ [][NextCLI]_vars

(***************************************************************************)
(* Package pod (src/pkg/util/pod/pod.go): the helpers that patch a pod in  *)
(* the API server.  A pod is [ObjectMeta, Status]; its JSON document is a  *)
(* map from field paths to values in which empty fields are left out; a    *)
(* patch is a map from field paths to a value to set or to a deletion.     *)
(* metadata.resourceVersion is a string in Go, here the number it spells   *)
(* (0 for the empty string).                                               *)
(***************************************************************************)
MetadataPaths ==
    {"metadata.name", "metadata.resourceVersion", "metadata.labels",
     "metadata.traceContext"}

StatusPaths == {"status.phase"}

\* metav1.ObjectMeta{} and v1.PodStatus{}
ZeroObjectMeta == [Name |-> "", ResourceVersion |-> 0, Labels |-> "", TraceContext |-> <<>>]

ZeroPodStatus == [Phase |-> ""]

\* a nil *v1.Pod
NilPod == [nil |-> TRUE, ObjectMeta |-> ZeroObjectMeta, Status |-> ZeroPodStatus]

\* v1.Pod{ObjectMeta: m, Status: st}
Pod(m, st) == [nil |-> FALSE, ObjectMeta |-> m, Status |-> st]

\* the value a pod has at a field path
FieldOf(p, path) ==
    CASE path = "metadata.name" -> p.ObjectMeta.Name
      [] path = "metadata.resourceVersion" -> p.ObjectMeta.ResourceVersion
      [] path = "metadata.labels" -> p.ObjectMeta.Labels
      [] path = "metadata.traceContext" -> p.ObjectMeta.TraceContext
      [] path = "status.phase" -> p.Status.Phase

\* json.Marshal of a pod: the fields that are not empty (omitempty)
Marshal(p) ==
    LET zero == Pod(ZeroObjectMeta, ZeroPodStatus)
        present == {path \in MetadataPaths \cup StatusPaths :
                       FieldOf(p, path) # FieldOf(zero, path)}
    IN  [path \in present |-> FieldOf(p, path)]

\* json.Unmarshal into a pod: a field the document lacks is empty
Unmarshal(doc) ==
    LET zero == Pod(ZeroObjectMeta, ZeroPodStatus)
        at(path) == IF path \in DOMAIN doc THEN doc[path] ELSE FieldOf(zero, path)
    IN  Pod([Name |-> at("metadata.name"),
             ResourceVersion |-> at("metadata.resourceVersion"),
             Labels |-> at("metadata.labels"),
             TraceContext |-> at("metadata.traceContext")],
            [Phase |-> at("status.phase")])

\* nil patch bytes, and the bytes of a patch document
NilBytes == [nil |-> TRUE, doc |-> <<>>]

Bytes(doc) == [nil |-> FALSE, doc |-> doc]

\* strategicpatch.CreateTwoWayMergePatch(oldData, newData, v1.Pod{}): the
\* fields of newData that oldData lacks or has with another value, and a
\* deletion (null) for each field of oldData that newData lacks
CreateTwoWayMergePatch(oldData, newData) ==
    LET changed == {path \in DOMAIN newData :
                       path \notin DOMAIN oldData \/ oldData[path] # newData[path]}
        deleted == DOMAIN oldData \ DOMAIN newData
    IN  [path \in changed \cup deleted |->
            IF path \in changed
            THEN [delete |-> FALSE, value |-> newData[path]]
            ELSE [delete |-> TRUE, value |-> oldData[path]]]

\* the API server applying a strategic merge patch to a stored document: on
\* the "status" subresource only status fields are taken from the patch, on
\* the pod itself only metadata fields
StrategicMergePatch(doc, patch, subresource) ==
    LET taken == DOMAIN patch \cap
                   (IF subresource = "status" THEN StatusPaths ELSE MetadataPaths)
        set == {path \in taken : ~patch[path].delete}
        deleted == {path \in taken : patch[path].delete}
    IN  [path \in (DOMAIN doc \cup set) \ deleted |->
            IF path \in set THEN patch[path].value ELSE doc[path]]

\* c.CoreV1().Pods(namespace).Patch(name, types.StrategicMergePatchType,
\* patchBytes, subresources...): the request is counted; it fails when
\* requestErr says so (no such pod, no connection) and when the body is no
\* JSON document (nil bytes); else the patch is applied, a pod that changed
\* gets the next resource version, and the stored pod is returned.
Patch(server, patchBytes, subresource, requestErr) ==
    LET received == [server EXCEPT !.requests = @ + 1]
        doc == StrategicMergePatch(Marshal(server.pod), patchBytes.doc, subresource)
        patched == Unmarshal(doc)
        stored == IF patched = server.pod THEN patched
                  ELSE [patched EXCEPT !.ObjectMeta.ResourceVersion = @ + 1]
    IN  IF requestErr \/ patchBytes.nil
        THEN [server |-> received, pod |-> NilPod, failed |-> TRUE]
        ELSE [server |-> [received EXCEPT !.pod = stored], pod |-> stored,
              failed |-> FALSE]

\* the errors of the helpers (fmt.Errorf), by their message
PatchError(msg, name) == [msg |-> msg, pod |-> name]

\* the steps json.Marshal(oldData), json.Marshal(newData), CreateTwoWayMergePatch
\* and Patch can fail at; `fails' is the set of the steps that fail when reached
Steps == {"oldData", "newData", "CreateTwoWayMergePatch", "Patch"}

\* preparePatchBytesforPodStatus
preparePatchBytesforPodStatus(namespace, name, oldPodStatus, newPodStatus, fails) ==
    LET oldData == Marshal(Pod(ZeroObjectMeta, oldPodStatus))
        newData == Marshal(Pod(ZeroObjectMeta, newPodStatus))
    IN
    IF "oldData" \in fails
        THEN [patchBytes |-> NilBytes,
              err |-> PatchError("failed to Marshal oldData", name)]
    ELSE IF "newData" \in fails
        THEN [patchBytes |-> NilBytes,
              err |-> PatchError("failed to Marshal newData", name)]
    ELSE IF "CreateTwoWayMergePatch" \in fails
        THEN [patchBytes |-> NilBytes,
              err |-> PatchError("failed to CreateTwoWayMergePatch", name)]
    ELSE [patchBytes |-> Bytes(CreateTwoWayMergePatch(oldData, newData)), err |-> Nil]

\* PatchPodStatus on the API server `server'.  The result holds the returned
\* pod, patch bytes and error, the server after the call, and whether a Patch
\* request was sent and whether it failed.
PatchPodStatus(server, namespace, name, oldPodStatus, newPodStatus, fails) ==
    LET prep == preparePatchBytesforPodStatus(namespace, name, oldPodStatus,
                                              newPodStatus, fails)
        r == Patch(server, prep.patchBytes, "status", "Patch" \in fails)
    IN
    IF prep.err # Nil
        THEN [pod |-> NilPod, patchBytes |-> NilBytes, err |-> prep.err,
              server |-> server, requested |-> FALSE, requestFailed |-> FALSE]
    ELSE IF r.failed
        THEN [pod |-> NilPod, patchBytes |-> NilBytes,
              err |-> PatchError("failed to patch status", name),
              server |-> r.server, requested |-> TRUE, requestFailed |-> TRUE]
    ELSE [pod |-> r.pod, patchBytes |-> prep.patchBytes, err |-> Nil,
          server |-> r.server, requested |-> TRUE, requestFailed |-> FALSE]

\* preparePatchBytesForTraceContext: the error of CreateTwoWayMergePatch is
\* assigned and not looked at; the function returns the bytes it got (nil when
\* CreateTwoWayMergePatch failed) and a nil error
preparePatchBytesForTraceContext(namespace, name, newTraceContext, oldObjectMeta, newObjectMeta, fails) ==
    LET oldData == Marshal(Pod(oldObjectMeta, ZeroPodStatus))
        newData == Marshal(Pod(newObjectMeta, ZeroPodStatus))
    IN
    IF "oldData" \in fails
        THEN [patchBytes |-> NilBytes,
              err |-> PatchError("failed to Marshal oldData", name)]
    ELSE IF "newData" \in fails
        THEN [patchBytes |-> NilBytes,
              err |-> PatchError("failed to Marshal newData", name)]
    ELSE [patchBytes |-> IF "CreateTwoWayMergePatch" \in fails THEN NilBytes
                         ELSE Bytes(CreateTwoWayMergePatch(oldData, newData)),
          err |-> Nil]

\* ReplacePodTraceContext on the API server `server'
ReplacePodTraceContext(server, namespace, name, newTraceContext, oldObjectMeta, fails) ==
    LET newObjectMeta == [oldObjectMeta EXCEPT !.TraceContext = newTraceContext]
        prep == preparePatchBytesForTraceContext(namespace, name, newTraceContext,
                                                 oldObjectMeta, newObjectMeta, fails)
        r == Patch(server, prep.patchBytes, "", "Patch" \in fails)
    IN
    IF prep.err # Nil
        THEN [pod |-> NilPod, patchBytes |-> NilBytes, err |-> prep.err,
              server |-> server, requested |-> FALSE, requestFailed |-> FALSE]
    ELSE IF r.failed
        THEN [pod |-> NilPod, patchBytes |-> prep.patchBytes,
              err |-> PatchError("Failed to patch trace context", name),
              server |-> r.server, requested |-> TRUE, requestFailed |-> TRUE]
    ELSE [pod |-> r.pod, patchBytes |-> prep.patchBytes, err |-> Nil,
          server |-> r.server, requested |-> TRUE, requestFailed |-> FALSE]

\* the trace contexts clients store, the phases a pod goes through, the labels
\* a pod has
PatchContexts ==
    {<<>>, SpanContextToBase64String(Ctx(85, 85, 0)),
     SpanContextToBase64String(Ctx(85, 170, 1))}

Phases == {"Pending", "Running"}

LabelValues == {"", "app=nginx"}

\* what can fail in one call: nothing, or one of the steps
Failures == {{}} \cup {{st} : st \in Steps}

\* no helper has returned yet.  A call's record keeps its arguments, the
\* stored pod and the number of requests before the call, the step that was
\* made to fail, and the results.
NoPatchRet ==
    [op |-> "none", name |-> "", newTraceContext |-> <<>>,
     oldObjectMeta |-> ZeroObjectMeta, oldPodStatus |-> ZeroPodStatus,
     newPodStatus |-> ZeroPodStatus, fails |-> {}, stored |-> NilPod, requests |-> 0,
     pod |-> NilPod, patchBytes |-> NilBytes, err |-> Nil,
     requested |-> FALSE, requestFailed |-> FALSE]

\* a pod is stored; the clients hold the pod as they read it
InitPatch ==
    /\ rev = "pod.go"
    /\ input = NoInput
    /\ alive = TRUE
    /\ pod = NewPod("", <<>>)
    /\ spans = <<>>
    /\ exporters = <<>>
    /\ exported = {}
    /\ ret = NoPatchRet
    /\ calls = NoCalls
    /\ cli = NoCLI
    /\ \E labels \in LabelValues, tc \in PatchContexts, phase \in Phases :
          apiserver = [pod |-> Pod([Name |-> "nginx", ResourceVersion |-> 1,
                                    Labels |-> labels, TraceContext |-> tc],
                                   [Phase |-> phase]),
                       requests |-> 0]
    /\ snapshots = {apiserver.pod}

\* a client calls ReplacePodTraceContext with the metadata of a pod it holds,
\* and holds the pod the call returns
CallReplacePodTraceContext ==
    /\ apiserver.requests < MaxPatches
    /\ \E newTraceContext \in PatchContexts, held \in snapshots, fails \in Failures :
          LET name == apiserver.pod.ObjectMeta.Name
              r == ReplacePodTraceContext(apiserver, "default", name, newTraceContext,
                                          held.ObjectMeta, fails)
          IN  /\ apiserver' = r.server
              /\ snapshots' = IF r.pod.nil THEN snapshots ELSE snapshots \cup {r.pod}
              /\ ret' = [NoPatchRet EXCEPT !.op = "ReplacePodTraceContext",
                                           !.name = name,
                                           !.newTraceContext = newTraceContext,
                                           !.oldObjectMeta = held.ObjectMeta,
                                           !.fails = fails,
                                           !.stored = apiserver.pod,
                                           !.requests = apiserver.requests,
                                           !.pod = r.pod,
                                           !.patchBytes = r.patchBytes,
                                           !.err = r.err,
                                           !.requested = r.requested,
                                           !.requestFailed = r.requestFailed]
    /\ UNCHANGED <<rev, input, alive, pod, spans, exporters, exported, calls, cli>>

\* a client calls PatchPodStatus with the status of a pod it holds, and holds
\* the pod the call returns
CallPatchPodStatus ==
    /\ apiserver.requests < MaxPatches
    /\ \E phase \in Phases, held \in snapshots, fails \in Failures :
          LET name == apiserver.pod.ObjectMeta.Name
              r == PatchPodStatus(apiserver, "default", name, held.Status,
                                  [Phase |-> phase], fails)
          IN  /\ apiserver' = r.server
              /\ snapshots' = IF r.pod.nil THEN snapshots ELSE snapshots \cup {r.pod}
              /\ ret' = [NoPatchRet EXCEPT !.op = "PatchPodStatus",
                                           !.name = name,
                                           !.oldPodStatus = held.Status,
                                           !.newPodStatus = [Phase |-> phase],
                                           !.fails = fails,
                                           !.stored = apiserver.pod,
                                           !.requests = apiserver.requests,
                                           !.pod = r.pod,
                                           !.patchBytes = r.patchBytes,
                                           !.err = r.err,
                                           !.requested = r.requested,
                                           !.requestFailed = r.requestFailed]
    /\ UNCHANGED <<rev, input, alive, pod, spans, exporters, exported, calls, cli>>

NextPatch ==
    \/ CallReplacePodTraceContext
    \/ CallPatchPodStatus

SpecPatch == InitPatch /\ [][NextPatch]_vars

(***************************************************************************)
(* Properties of the encode and decode functions, checked under SpecCodec. *)
(***************************************************************************)
DecodeOps == {"SpanContextFromBase64String", "SpanContextFromPodEncodedContext"}

\* a string with the '\r' and '\n' characters taken out
StripNewlines(s) == SelectSeq(s, LAMBDA ch : ch \notin {LineFeed, CarriageReturn})

Alphabet == {encodeStd[i] : i \in 1..64}

\* Standard-alphabet base64 as a text: once line breaks are taken out, quanta
\* of four alphabet characters, the last of which may end in "=" or "==".
IsStdBase64(s) ==
    LET t == StripNewlines(s)
        n == Len(t)
    IN  /\ n % 4 = 0
        /\ \A i \in 1..n :
              \/ t[i] \in Alphabet
              \/ /\ t[i] = StdPadding
                 /\ i >= n - 1
                 /\ t[n] = StdPadding

\* The binary span-context format, by offsets: version 0, field 0 and a 16-byte
\* trace ID, then field 1 and an 8-byte span ID when present, then field 2 and
\* the options byte when present; an absent field is zero.
EncodesSpanContext(b, c) ==
    /\ Len(b) >= 18
    /\ b[1] = 0
    /\ b[2] = 0
    /\ c.TraceID = SubSeq(b, 3, 18)
    /\ LET spanAt == Len(b) >= 27 /\ b[19] = 1
           optsAt == IF spanAt THEN 28 ELSE 19
           optsPresent == Len(b) >= optsAt + 1 /\ b[optsAt] = 2
       IN  /\ c.SpanID = IF spanAt THEN SubSeq(b, 20, 27) ELSE Zeros(8)
           /\ c.TraceOptions = IF optsPresent THEN b[optsAt + 1] ELSE 0

\* the error a decode call of this kind returns for a buffer that is no span context
MalformedTraceBuffer(r) ==
    IF r.op = "SpanContextFromPodEncodedContext" /\ rev = "part_000"
    THEN ErrNotTraceFromPod(r.name)
    ELSE ErrNotTrace

\* C1: round trip.  Decoding the string SpanContextToBase64String returns for
\* a context c other than the zero-valued one returns a nil error and c: the
\* same trace ID, span ID and trace options.
C1_RoundTrip ==
    \A c \in Contexts \ {ZeroSpanContext} :
        (ret.op = "SpanContextFromBase64String"
            /\ ret.str = SpanContextToBase64String(c))
        => (ret.err = Nil /\ ret.sc = c)

\* C1 witness: a context with non-zero IDs and the sampled bit was encoded and
\* the returned string was decoded back to it.
C1_Witness ==
    /\ ret.op = "SpanContextFromBase64String"
    /\ input.sc.TraceID # Zeros(16)
    /\ input.sc.SpanID # Zeros(8)
    /\ input.sc.TraceOptions = 1
    /\ ret.str = SpanContextToBase64String(input.sc)
    /\ Len(ret.str) = 40
    /\ ret.sc = input.sc

\* C2: decoding the empty string gives an outcome of its own: an error that is
\* neither the malformed-base64 error nor the malformed-trace-buffer error,
\* returned without handing the empty buffer to the binary parser, and never
\* a success.
C2_EmptyContextIsDistinct ==
    (ret.op \in DecodeOps /\ ret.str = <<>>)
    => /\ ret.err # Nil
       /\ ret.err # CorruptInputError
       /\ ret.err # MalformedTraceBuffer(ret)
       /\ ~ret.parsed

\* C3: a string that is not standard base64 is rejected with the base64 error;
\* a base64 string whose bytes are no span context (fewer than the 18 bytes of
\* version and trace ID, a wrong version byte, a wrong first field) is
\* rejected with the trace-buffer error; the two errors differ and neither is nil.
C3_MalformedRejected ==
    ret.op \in DecodeOps =>
        LET bytes == DecodeString(ret.str).out
            isContext == Len(bytes) >= 18 /\ bytes[1] = 0 /\ bytes[2] = 0
        IN  /\ ~IsStdBase64(ret.str) => ret.err = CorruptInputError
            /\ (IsStdBase64(ret.str) /\ ~isContext) => ret.err = MalformedTraceBuffer(ret)
            /\ CorruptInputError # MalformedTraceBuffer(ret)
            /\ CorruptInputError # Nil
            /\ MalformedTraceBuffer(ret) # Nil

\* C3 witness: "not-valid-base64!!" was rejected with the base64 error
C3_Witness ==
    /\ ret.op \in DecodeOps
    /\ ret.str = NotValidBase64
    /\ ret.err = CorruptInputError

\* C3 second witness state: base64("short") was rejected with the other error
C3_WitnessShort ==
    /\ ret.op \in DecodeOps
    /\ ret.str = <<99, 50, 104, 118, 99, 110, 81, 61>>
    /\ ret.err = MalformedTraceBuffer(ret)

\* C4: no default is substituted.  A decode of a non-empty string that returns
\* a nil error returns the span context the string's bytes encode in the
\* binary format, and no other context is encoded by them; every other decode
\* returns a non-nil error.
C4_NoSilentDefault ==
    (ret.op \in DecodeOps /\ ret.str # <<>>) =>
        LET bytes == DecodeString(ret.str).out
        IN  \/ ret.err # Nil
            \/ /\ ret.err = Nil
               /\ IsStdBase64(ret.str)
               /\ EncodesSpanContext(bytes, ret.sc)
               /\ \A c \in Contexts : EncodesSpanContext(bytes, c) => c = ret.sc

\* C4 witness: a decode succeeded on a full 29-byte buffer, and another one
\* failed; here the successful one
C4_Witness ==
    /\ ret.op \in DecodeOps
    /\ ret.str # <<>>
    /\ ret.err = Nil
    /\ ret.sc \in Contexts
    /\ ret.sc.SpanID # Zeros(8)
    /\ ret.sc.TraceOptions = 1

(***************************************************************************)
(* Properties of the pod functions, checked under Spec.                    *)
(***************************************************************************)
\* a TraceContext that holds no context or does not decode: empty, no base64,
\* or bytes that are no span context
DoesNotDecode(s) ==
    \/ s = <<>>
    \/ ~IsStdBase64(s)
    \/ LET bytes == DecodeString(s).out
       IN  ~(Len(bytes) >= 18 /\ bytes[1] = 0 /\ bytes[2] = 0)

\* C5: linked-span failure propagation.  When the pod's TraceContext is empty
\* or does not decode, SpanFromPodEncodedContext returns a non-nil error,
\* starts no span (the spans of the process are those before the call, nothing
\* is exported) and returns the empty context and an empty Span.
C5_FailurePropagates ==
    (ret.op = "SpanFromPodEncodedContext" /\ DoesNotDecode(ret.str))
    => /\ ret.err # Nil
       /\ Len(spans) = ret.nspans
       /\ exported = {}
       /\ ret.span = ZeroSpan
       /\ ~ret.ctxHasSpan

\* C5 witness: the call failed on a pod without a context, in a process that
\* had started a span from the pod before its context was overwritten
C5_Witness ==
    /\ ret.op = "SpanFromPodEncodedContext"
    /\ ret.str = <<>>
    /\ ret.err # Nil
    /\ Len(spans) = 1
    /\ ret.nspans = 1

\* C6: identity precondition.  EncodeSpanContextIntoPod on a pod whose name is
\* empty returns an error and leaves the pod's TraceContext as it was.
C6_IdentityPrecondition ==
    (ret.op = "EncodeSpanContextIntoPod" /\ ret.name = "")
    => /\ ret.err # Nil
       /\ pod.TraceContext = ret.str

\* C7 as claimed: after EncodeSpanContextIntoPod(pod, c) returns nil on a named
\* pod, the field is SpanContextToBase64String(c), it decodes to c, and the
\* other fields are as before.
C7_EmbedDecodesBack ==
    (ret.op = "EncodeSpanContextIntoPod" /\ ret.err = Nil /\ ret.name # "")
    => /\ pod.TraceContext = SpanContextToBase64String(ret.sc)
       /\ SpanContextFromPodEncodedContext(rev, pod).err = Nil
       /\ SpanContextFromPodEncodedContext(rev, pod).sc = ret.sc
       /\ pod.Name = ret.name
       /\ pod.ResourceVersion = ret.rv

\* C7 amended: after EncodeSpanContextIntoPod(pod, c) returns nil on a named
\* pod, the field is SpanContextToBase64String(c) whatever it held before and
\* the other fields are as before; the field decodes to c when c is not the
\* zero-valued context, and for the zero-valued context the field is the empty
\* string, which does not decode.
C7_EmbedCanonical ==
    (ret.op = "EncodeSpanContextIntoPod" /\ ret.err = Nil /\ ret.name # "")
    => /\ pod.TraceContext = SpanContextToBase64String(ret.sc)
       /\ pod.Name = ret.name
       /\ pod.ResourceVersion = ret.rv
       /\ IF ret.sc = ZeroSpanContext
          THEN /\ pod.TraceContext = <<>>
               /\ SpanContextFromPodEncodedContext(rev, pod).err # Nil
          ELSE /\ SpanContextFromPodEncodedContext(rev, pod).err = Nil
               /\ SpanContextFromPodEncodedContext(rev, pod).sc = ret.sc

\* C7 witness: a non-zero context was embedded over a different, non-empty
\* field of a named pod whose resource version had been set
C7_Witness ==
    /\ ret.op = "EncodeSpanContextIntoPod"
    /\ ret.err = Nil
    /\ ret.name # ""
    /\ ret.str # <<>>
    /\ ret.str # pod.TraceContext
    /\ ret.sc # ZeroSpanContext
    /\ ret.rv = "asdf"
    /\ pod.TraceContext = SpanContextToBase64String(ret.sc)

ReadOps == {"SpanContextFromPodEncodedContext", "SpanFromPodEncodedContext"}

\* C11: reads do not mutate the encoded context.  After
\* SpanContextFromPodEncodedContext or SpanFromPodEncodedContext has returned,
\* with or without an error, the pod's TraceContext is what it was before the
\* call, and reading the pod again gives the same outcome: the same error, the
\* same context, and for a started span the same trace ID.
C11_ReadsDoNotMutate ==
    ret.op \in ReadOps =>
        LET again == SpanContextFromPodEncodedContext(rev, pod)
        IN  /\ pod.TraceContext = ret.str
            /\ again.err = ret.err
            /\ ret.op = "SpanContextFromPodEncodedContext" => again.sc = ret.sc
            /\ (ret.op = "SpanFromPodEncodedContext" /\ ret.err = Nil)
                  => again.sc.TraceID = ret.span.spanContext.TraceID

\* C11 witness: part_000 started a span from a pod that carries a context; the
\* call wrote the pod's resource version and left the TraceContext alone
C11_Witness ==
    /\ ret.op = "SpanFromPodEncodedContext"
    /\ rev = "part_000"
    /\ ret.err = Nil
    /\ ret.str # <<>>
    /\ ret.rv = ""
    /\ pod.ResourceVersion = "asdf"
    /\ pod.TraceContext = ret.str

\* C13: SpanFromPodEncodedContext writes no field of the pod it is given: the
\* pod's name, TraceContext and resource version after the call are those
\* before it.
C13_NoPodWrite ==
    ret.op = "SpanFromPodEncodedContext"
    => /\ pod.Name = ret.name
       /\ pod.TraceContext = ret.str
       /\ pod.ResourceVersion = ret.rv

(***************************************************************************)
(* Properties of the exporter, checked under SpecExporter.                 *)
(***************************************************************************)
\* C9: exporter singleton, last writer wins.  A span that ends after two or
\* more InitializeExporter calls have returned is exported by the exporter of
\* the last call only: with `registered' calls returned, every delivery is to
\* exporter number `registered'.
C9_LastExporterOnly ==
    \A d \in exported : d.exporter = d.registered

\* C10: a failure to construct the local endpoint is returned.  Whenever
\* openzipkin.NewEndpoint fails, InitializeExporter returns, with a non-nil
\* error, the process lives on, and no exporter has been registered.
C10_InitFailureReturned ==
    (ret.op = "InitializeExporter" /\ ret.endpointErr)
    => /\ alive
       /\ ret.returned
       /\ ret.err # Nil
       /\ ~ret.registered
       /\ Len(exporters) = ret.nexporters

(***************************************************************************)
(* Properties of concurrent calls, checked under SpecConcurrent.           *)
(***************************************************************************)
\* the context goroutine g was given
ContextOf(call) ==
    IF call.op = "SpanContextToBase64String" THEN call.spanContext
    ELSE CHOOSE c \in CallContexts : SpanContextToBase64String(c) = call.stringEncodedContext

\* C12: concurrent encode and decode calls are independent.  Whatever the
\* interleaving of the calls' statements, a call that has returned has returned
\* what it returns when it runs alone: the encode of c the string
\* SpanContextToBase64String(c), the decode of that string a nil error and c.
C12_CallsIndependent ==
    \A g \in Goroutines :
        calls[g].pc = "returned" =>
            IF calls[g].op = "SpanContextToBase64String"
            THEN calls[g].str = SpanContextToBase64String(calls[g].spanContext)
            ELSE LET alone == SpanContextFromBase64String(calls[g].stringEncodedContext)
                 IN  /\ calls[g].err = alone.err
                     /\ calls[g].sc = alone.sc
                     /\ calls[g].err = Nil
                     /\ calls[g].sc = ContextOf(calls[g])

\* C12 witness: a decode has returned its context while an encode of another
\* context is between its two statements
C12_Witness ==
    /\ calls[1].op = "SpanContextToBase64String"
    /\ calls[1].pc = "running"
    /\ calls[2].op = "SpanContextFromBase64String"
    /\ calls[2].pc = "returned"
    /\ calls[2].sc = Ctx(85, 170, 1)
    /\ calls[1].spanContext = Ctx(170, 85, 255)
    /\ calls[1].bytes # calls[2].bytes

(***************************************************************************)
(* Properties of the downward-application command, checked under SpecCLI.  *)
(***************************************************************************)
\* the variable is unset or empty, or its value is no base64 or no span context
BadEnvironment == DoesNotDecode(Getenv(cli.environ))

\* C14: the command reads KUBERNETES_TRACE_CONTEXT once and decodes it once,
\* and starts its span only after the decode has succeeded; when the variable
\* is unset, empty, no valid base64 or no span context, main never gets to
\* starting a span, and when the process has stopped it has stopped in
\* log.Fatal, at the decode at the latest.
C14_DecodeThenSpan ==
    /\ cli.getenvs <= 1
    /\ cli.decodes <= 1
    /\ cli.parses <= 1
    /\ Len(spans) <= 1
    /\ spans # <<>> =>
          /\ ~BadEnvironment
          /\ cli.getenvs = 1 /\ cli.decodes = 1 /\ cli.parses = 1
          /\ cli.traceContext = Getenv(cli.environ)
          /\ cli.spanContext = SpanContextFromBase64String(cli.traceContext).sc
    /\ BadEnvironment =>
          /\ spans = <<>>
          /\ exported = {}
          /\ cli.pc \in {"Getenv", "NewExporter", "DecodeString", "FromBinary", "fatal"}
    /\ ~alive <=> cli.pc \in {"fatal", "exited"}
    /\ cli.pc \in {"return", "exited"} => (cli.getenvs = 1 /\ cli.decodes = 1)

\* C14 witness: main_1 read a context from the environment, started the span
\* as its child after decoding it, ended it, and the exporter got it
C14_Witness ==
    /\ rev = "main_1"
    /\ cli.pc = "exited"
    /\ cli.environ.value = SpanContextToBase64String(Ctx(85, 170, 1))
    /\ Len(spans) = 1
    /\ spans[1].spanContext.TraceID = IDBytes(16, 85)
    /\ spans[1].data.ParentSpanID = IDBytes(8, 170)
    /\ spans[1].ended
    /\ exported # {}

\* C14 second witness state: the variable is not set and main ended in
\* log.Fatalf after FromBinary refused the empty buffer
C14_WitnessUnset ==
    /\ ~cli.environ.set
    /\ cli.pc = "fatal"
    /\ cli.decodes = 1
    /\ cli.parses = 1
    /\ spans = <<>>

(***************************************************************************)
(* Properties of the patch helpers, checked under SpecPatch.               *)
(***************************************************************************)
\* C15: stored trace context fidelity.  Whenever ReplacePodTraceContext
\* returns a nil error, whether the metadata it was given is that of the
\* stored pod or of an earlier one, the pod it returns has TraceContext equal
\* to newTraceContext, and the name and the labels of the stored pod are as
\* they were before the call.
C15_ReplaceStoresNewContext ==
    (ret.op = "ReplacePodTraceContext" /\ ret.err = Nil)
    => /\ ~ret.pod.nil
       /\ ret.pod.ObjectMeta.TraceContext = ret.newTraceContext
       /\ apiserver.pod.ObjectMeta.Name = ret.stored.ObjectMeta.Name
       /\ apiserver.pod.ObjectMeta.Labels = ret.stored.ObjectMeta.Labels

\* the steps that prepare the patch
PrepareSteps == {"oldData", "newData", "CreateTwoWayMergePatch"}

\* C16: the patch helpers never swallow a failure.  When a step of the
\* preparation fails (marshalling the old object, marshalling the new object,
\* computing the two-way merge patch), PatchPodStatus and
\* ReplacePodTraceContext return a non-nil error and a nil pod and send no
\* Patch request; when the Patch request fails, they return a non-nil error and
\* a nil pod.
C16_PreparationFailureReturned ==
    ret.op \in {"PatchPodStatus", "ReplacePodTraceContext"}
    => /\ (ret.fails \cap PrepareSteps # {})
            => /\ ret.err # Nil
               /\ ret.pod.nil
               /\ ~ret.requested
               /\ apiserver.requests = ret.requests
       /\ ret.requestFailed => (ret.err # Nil /\ ret.pod.nil)

=============================================================================
